---- MODULE Spec2Model ----
(***************************************************************************)
(* A model of the Jaal dashboard core (src/jaal/jaal.py): the full dataset *)
(* self.data, the filtered view self.filtered_data, the snapshot displayed *)
(* by the browser (graph_data), and the handlers that the reactive         *)
(* callback setting_pane_callback dispatches to.                           *)
(*                                                                         *)
(* Strings that the code inspects character by character (identifiers,     *)
(* labels, search texts) are sequences of one-character strings, so that   *)
(* `in`, str.contains and str.lower are computed, not assumed.             *)
(*                                                                         *)
(* The node and edge collections of the filtered view and of the displayed *)
(* snapshot hold identifiers: the Python lists hold references to the      *)
(* dicts of self.data (node_map, line 106), whose visual fields are read   *)
(* through data.                                                           *)
(***************************************************************************)
EXTENDS Integers, Sequences, FiniteSets, TLC

VARIABLES
    data,                        \* self.data: [nodes, edges]
    scaling_vars,                \* self.scaling_vars
    filtered_data,               \* self.filtered_data: [nodes, edges] (identifiers)
    add_related_entities,        \* self.add_related_entities
    include_related_org,         \* self.include_related_org
    include_related_wf,          \* self.include_related_wf
    include_related_tables,      \* self.include_related_tables
    node_value_color_mapping,    \* self.node_value_color_mapping
    edge_value_color_mapping,    \* self.edge_value_color_mapping
    graph_data,                  \* the snapshot last returned to / held by the browser
    last,                        \* the last callback invocation and its outcome
    calls,                       \* callback invocations handled so far
    ex_pc,                       \* _get_related_nodes run step by step: control state
    ex_stack,                    \* ... its call stack
    ex_edge_df,                  \* ... the edge_df it mutates in place
    ex_result                    \* ... the list the outermost call returned

vars == << data, scaling_vars, filtered_data, add_related_entities,
           include_related_org, include_related_wf, include_related_tables,
           node_value_color_mapping, edge_value_color_mapping, graph_data, last, calls,
           ex_pc, ex_stack, ex_edge_df, ex_result >>

exvars == << ex_pc, ex_stack, ex_edge_df, ex_result >>

flagvars == << add_related_entities, include_related_org, include_related_wf,
               include_related_tables >>

-----------------------------------------------------------------------------
(* Bounds of the model *)

MaxEdges == 2          \* rows of the edge table
MaxCalls == 2          \* callback invocations of a session

-----------------------------------------------------------------------------
(* Strings *)

Range(s) == { s[i] : i \in DOMAIN s }

\* Python's `pat in s` / pandas str.contains(pat) for a plain pattern
Contains(s, pat) ==
    \E i \in 1..(Len(s) - Len(pat) + 1) : SubSeq(s, i, i + Len(pat) - 1) = pat

LowerChar(c) ==
    CASE c = "A" -> "a"
      [] c = "B" -> "b"
      [] c = "L" -> "l"
      [] OTHER -> c

\* str.lower()
Lower(s) == [ i \in DOMAIN s |-> LowerChar(s[i]) ]

MARK_ORG == << "o", "r", "g" >>
MARK_WF == << "w", "f" >>
MARK_TABLE == << "t", "a", "b", "l", "e" >>

-----------------------------------------------------------------------------
(* The loaded dataset (parse_dataframe, consumed as a black box) *)

DEFAULT_COLOR == << "#97C2FC" >>
DEFAULT_NODE_SIZE == 7
DEFAULT_EDGE_SIZE == 1
NaN == 0 - 1           \* the float nan, as a size or width

\* identifiers of the rows of the node table, in table order
NodeIds == << << "o", "r", "g", "1" >>,
              << "w", "f", "1" >>,
              << "t", "a", "b", "l", "e", "1" >> >>

\* an identifier that an edge may name although the node table has no such row
GHOST == << "x" >>

EndPoints == Range(NodeIds) \cup { GHOST }

EdgeId(i) == << "e", i >>

\* the edge tables: one to MaxEdges rows, from any node to any endpoint,
\* self-loops and parallel edges included; identifiers are unique
EdgeTables ==
    UNION { [ 1..n -> Range(NodeIds) \X EndPoints ] : n \in 1..MaxEdges }

MkEdges(t) ==
    [ i \in DOMAIN t |->
        [ id |-> EdgeId(i), from |-> t[i][1], to |-> t[i][2],
          width |-> DEFAULT_EDGE_SIZE, color |-> DEFAULT_COLOR, val |-> (i - 1) % 2 ] ]

\* the numeric node columns the loader may have read
NodeValColumns == { [ i \in DOMAIN NodeIds |-> 0 ], [ i \in DOMAIN NodeIds |-> i - 1 ] }

\* the labels of the rows of the node table
NodeLabels == << << "A", "l", "p", "h", "a" >>,
                << "B", "e", "t", "a" >>,
                << "a", "L", "B" >> >>

MkNodes(vals) ==
    [ i \in DOMAIN NodeIds |->
        [ id |-> NodeIds[i], label |-> NodeLabels[i], size |-> DEFAULT_NODE_SIZE,
          color |-> DEFAULT_COLOR, val |-> vals[i] ] ]

SeqMin(s) == IF s = << >> THEN 0 ELSE CHOOSE m \in Range(s) : \A x \in Range(s) : m <= x
SeqMax(s) == IF s = << >> THEN 0 ELSE CHOOSE m \in Range(s) : \A x \in Range(s) : m >= x

\* compute_scaling_vars: the (min, max) of every numeric column
MkScaling(nodes, edges) ==
    [ node |-> [ min |-> SeqMin([ i \in DOMAIN nodes |-> nodes[i].val ]),
                 max |-> SeqMax([ i \in DOMAIN nodes |-> nodes[i].val ]) ],
      edge |-> [ min |-> SeqMin([ i \in DOMAIN edges |-> edges[i].val ]),
                 max |-> SeqMax([ i \in DOMAIN edges |-> edges[i].val ]) ] ]

NodeIdsOf(d) == [ i \in DOMAIN d.nodes |-> d.nodes[i].id ]
EdgeIdsOf(d) == [ i \in DOMAIN d.edges |-> d.edges[i].id ]

-----------------------------------------------------------------------------
(* _filter_entities and _get_related_nodes *)

\* filter_entities, had the check of include_related_org (lines 83-84) been left out
filter_entities_keeps_org(ids, org, wf, tables) ==
    LET keep(x) == /\ (wf \/ ~Contains(x, MARK_WF))
                   /\ (tables \/ ~Contains(x, MARK_TABLE))
    IN SelectSeq(ids, keep)

\* _filter_entities: drop the identifiers of every category whose flag is off
filter_entities(ids, org, wf, tables) ==
    LET keep(x) == /\ (org \/ ~Contains(x, MARK_ORG))
                   /\ (wf \/ ~Contains(x, MARK_WF))
                   /\ (tables \/ ~Contains(x, MARK_TABLE))
    IN SelectSeq(ids, keep)

\* edge_df.query("`from`=='id'")['to'], filtered
related_nodes_in(id, edge_df, org, wf, tables) ==
    LET rows == SelectSeq(edge_df, LAMBDA e : e.from = id)
    IN filter_entities([ i \in DOMAIN rows |-> rows[i].to ], org, wf, tables)

\* edge_df.query("`to`=='id'")['from'], filtered
related_nodes_out(id, edge_df, org, wf, tables) ==
    LET rows == SelectSeq(edge_df, LAMBDA e : e.to = id)
    IN filter_entities([ i \in DOMAIN rows |-> rows[i].from ], org, wf, tables)

\* drop_edges, had line 73 been left out
drop_edges_none(edge_df, related_out) == edge_df

\* edge_df.drop(edge_df[edge_df['from'].isin(related_nodes_out)].index)
drop_edges(edge_df, related_out) ==
    SelectSeq(edge_df, LAMBDA e : e.from \notin Range(related_out))

\* InNodeMap, had the lookup made up a node for an identifier it does not hold
InNodeMap_any(id) == TRUE

\* node_map[found_node_id]: the node, or KeyError
InNodeMap(id) == \E i \in DOMAIN data.nodes : data.nodes[i].id = id

\* _get_related_nodes(found_nodes_ids, edge_df, node_map), as the code computes
\* it: [ok, nodes, edge_df], ok = FALSE when node_map raised KeyError
RECURSIVE get_related_nodes(_, _, _, _, _)
RECURSIVE related_loop(_, _, _, _, _, _, _)
related_loop(ids, i, nodes, edge_df, org, wf, tables) ==
    IF i > Len(ids) THEN [ ok |-> TRUE, nodes |-> nodes, edge_df |-> edge_df ]
    ELSE IF ~InNodeMap(ids[i]) THEN [ ok |-> FALSE, nodes |-> nodes, edge_df |-> edge_df ]
    ELSE
      LET rin == related_nodes_in(ids[i], edge_df, org, wf, tables)
          rout == related_nodes_out(ids[i], edge_df, org, wf, tables)
          dropped == drop_edges(edge_df, rout)
      IN IF Len(rin \o rout) > 0
         THEN LET r == get_related_nodes(rin \o rout, dropped, org, wf, tables)
              IN IF r.ok
                 THEN related_loop(ids, i + 1, Append(nodes, ids[i]) \o r.nodes,
                                   r.edge_df, org, wf, tables)
                 ELSE r
         ELSE related_loop(ids, i + 1, Append(nodes, ids[i]), dropped, org, wf, tables)

get_related_nodes(found_nodes_ids, edge_df, org, wf, tables) ==
    related_loop(found_nodes_ids, 1, << >>, edge_df, org, wf, tables)

-----------------------------------------------------------------------------
(* Initial states *)

\* found_nodes_ids of a query: the matching rows' identifiers, in table order
NodeSelections ==
    { SelectSeq(NodeIds, LAMBDA x : x \in S) : S \in SUBSET Range(NodeIds) }

NoCall ==
    [ op |-> "load", fails |-> FALSE, ok |-> TRUE, raised |-> FALSE, found |-> << >>,
      text |-> << >>, attr |-> "None", narrowed |-> FALSE ]

\* Jaal.__init__ on the node column vals and the edge table t
Loaded(vals, t) ==
    /\ data = [ nodes |-> MkNodes(vals), edges |-> MkEdges(t) ]
    /\ scaling_vars = MkScaling(data.nodes, data.edges)
    /\ filtered_data = [ nodes |-> NodeIdsOf(data), edges |-> EdgeIdsOf(data) ]
    /\ node_value_color_mapping = << >>
    /\ edge_value_color_mapping = << >>
    /\ graph_data = [ nodes |-> [ i \in DOMAIN data.nodes |->
                                    [ id |-> data.nodes[i].id,
                                      label |-> data.nodes[i].label,
                                      hidden |-> "unset" ] ],
                      edges |-> EdgeIdsOf(data) ]
    /\ last = NoCall
    /\ calls = 0

ExIdle ==
    /\ ex_pc = "idle"
    /\ ex_stack = << >>
    /\ ex_edge_df = << >>
    /\ ex_result = << >>

-----------------------------------------------------------------------------
(* _get_related_nodes, one loop iteration or one return per step *)

\* the deepest call the expansion of a table of n edges is allowed
DepthCap == 2 * Len(data.edges) + 2

ExTop == ex_stack[Len(ex_stack)]

\* one iteration of the for loop of the innermost call (lines 63-76)
ex_visit ==
    /\ ex_pc = "running"
    /\ ExTop.i <= Len(ExTop.ids)
    /\ LET id == ExTop.ids[ExTop.i]
           rin == related_nodes_in(id, ex_edge_df, include_related_org,
                                   include_related_wf, include_related_tables)
           rout == related_nodes_out(id, ex_edge_df, include_related_org,
                                     include_related_wf, include_related_tables)
           n == Len(ex_stack)
       IN IF ~InNodeMap(id)
          THEN /\ ex_pc' = "raised"
               /\ UNCHANGED << ex_stack, ex_edge_df, ex_result >>
          ELSE /\ ex_edge_df' = drop_edges(ex_edge_df, rout)
               /\ IF Len(rin \o rout) > 0
                  THEN /\ n < DepthCap
                       /\ ex_stack' =
                            Append([ ex_stack EXCEPT ![n].nodes = Append(@, id) ],
                                   [ ids |-> rin \o rout, i |-> 1, nodes |-> << >> ])
                  ELSE ex_stack' = [ ex_stack EXCEPT ![n].nodes = Append(@, id),
                                                     ![n].i = @ + 1 ]
               /\ UNCHANGED << ex_pc, ex_result >>
    /\ UNCHANGED << data, scaling_vars, filtered_data, flagvars,
                    node_value_color_mapping, edge_value_color_mapping,
                    graph_data, last, calls >>

\* `return nodes` of the innermost call (line 78), and `nodes += ...` of its caller
ex_return ==
    /\ ex_pc = "running"
    /\ ExTop.i > Len(ExTop.ids)
    /\ LET n == Len(ex_stack)
       IN IF n = 1
          THEN /\ ex_pc' = "done"
               /\ ex_result' = ExTop.nodes
               /\ UNCHANGED ex_stack
          ELSE /\ ex_stack' = [ SubSeq(ex_stack, 1, n - 1)
                                  EXCEPT ![n - 1].nodes = @ \o ExTop.nodes,
                                         ![n - 1].i = @ + 1 ]
               /\ UNCHANGED << ex_pc, ex_result >>
    /\ UNCHANGED << data, scaling_vars, filtered_data, flagvars,
                    node_value_color_mapping, edge_value_color_mapping,
                    graph_data, last, calls, ex_edge_df >>

\* a call _get_related_nodes(found_nodes_ids, edge_df, node_map) about to start
InitExpand ==
    /\ \E t \in EdgeTables : Loaded([ i \in DOMAIN NodeIds |-> i - 1 ], t)
    /\ add_related_entities = TRUE
    /\ include_related_org \in BOOLEAN
    /\ include_related_wf \in BOOLEAN
    /\ include_related_tables \in BOOLEAN
    /\ ex_pc = "running"
    /\ \E ids \in NodeSelections :
          ex_stack = << [ ids |-> ids, i |-> 1, nodes |-> << >> ] >>
    /\ ex_edge_df = data.edges
    /\ ex_result = << >>

NextExpand == ex_visit \/ ex_return

SpecExpand == InitExpand /\ [][NextExpand]_vars /\ WF_vars(NextExpand)

\* found_nodes_ids of the outermost call
ExSeeds == ex_stack[1].ids

\* the step-by-step run returns what the recursive operator computes
ExAgrees ==
    ex_pc = "done" =>
        LET r == get_related_nodes(ExSeeds, data.edges, include_related_org,
                                   include_related_wf, include_related_tables)
        IN r.ok /\ r.nodes = ex_result

-----------------------------------------------------------------------------
(* The handlers *)

\* the label of the node dict that identifier id refers to
LabelOf(id) ==
    IF \E i \in DOMAIN data.nodes : data.nodes[i].id = id
    THEN data.nodes[CHOOSE i \in DOMAIN data.nodes : data.nodes[i].id = id].label
    ELSE id

\* what the browser receives when the callback returns the view fd
Snapshot(fd) ==
    [ nodes |-> [ i \in DOMAIN fd.nodes |->
                    [ id |-> fd.nodes[i], label |-> LabelOf(fd.nodes[i]),
                      hidden |-> "unset" ] ],
      edges |-> fd.edges ]

\* DataCopy, had `self.filtered_data = self.data.copy()` (lines 101, 129) been
\* left out
DataCopy_stale == filtered_data

\* self.data.copy()
DataCopy == [ nodes |-> NodeIdsOf(data), edges |-> EdgeIdsOf(data) ]

Narrowed == filtered_data.nodes # NodeIdsOf(data)

\* a query string, by what DataFrame.query makes of it: it raises, or it
\* selects rows of the table (in table order)
NodeQueries ==
    { [ fails |-> TRUE, ids |-> << >> ] } \cup
    { [ fails |-> FALSE, ids |-> sel ] : sel \in NodeSelections }

EdgeQueries ==
    { [ fails |-> TRUE, ids |-> << >> ] } \cup
    { [ fails |-> FALSE, ids |-> SelectSeq(EdgeIdsOf(data), LAMBDA x : x \in S) ] :
        S \in SUBSET Range(EdgeIdsOf(data)) }

\* the texts typed into the search box
SearchTexts == { << >>, << "a", "l" >>, << "A", "L" >>, << "B" >> }

\* the options of the color and size dropdowns
AttrOptions == { "None", "val" }

\* search_hidden, had search_text not been lower-cased (line 54)
search_hidden_text_as_typed(label, search_text) ==
    IF ~Contains(Lower(label), search_text) THEN "true" ELSE "false"

\* _callback_search_graph: node['hidden'] of every displayed node
search_hidden(label, search_text) ==
    IF ~Contains(Lower(label), Lower(search_text)) THEN "true" ELSE "false"

callback_search_graph(search_text) ==
    /\ graph_data' = [ graph_data EXCEPT !.nodes =
                         [ i \in DOMAIN graph_data.nodes |->
                             [ graph_data.nodes[i] EXCEPT
                                 !.hidden = search_hidden(graph_data.nodes[i].label,
                                                          search_text) ] ] ]
    /\ last' = [ NoCall EXCEPT !.op = "search_graph", !.text = search_text,
                               !.narrowed = Narrowed ]
    /\ UNCHANGED << data, scaling_vars, filtered_data, flagvars,
                    node_value_color_mapping, edge_value_color_mapping, exvars >>

\* the try block of _callback_filter_nodes (lines 104-117): [ok, nodes]
filter_nodes_try(q, related, org, wf, tables) ==
    IF q.fails THEN [ ok |-> FALSE, nodes |-> << >> ]
    ELSE IF ~related THEN [ ok |-> TRUE, nodes |-> q.ids ]
    ELSE LET r == get_related_nodes(q.ids, data.edges, org, wf, tables)
         IN [ ok |-> r.ok, nodes |-> q.ids \o r.nodes ]

callback_filter_nodes(q, related, org, wf, tables) ==
    LET t == filter_nodes_try(q, related, org, wf, tables)
    IN /\ add_related_entities' = related
       /\ include_related_wf' = wf
       /\ include_related_org' = org
       /\ include_related_tables' = tables
       /\ filtered_data' = IF t.ok THEN [ DataCopy EXCEPT !.nodes = t.nodes ]
                                   ELSE DataCopy
       /\ graph_data' = IF t.ok THEN Snapshot(filtered_data')
                                ELSE Snapshot(DataCopy)
       /\ last' = [ NoCall EXCEPT !.op = "filter_nodes", !.fails = q.fails, !.ok = t.ok,
                                  !.found = q.ids, !.narrowed = Narrowed ]
       /\ UNCHANGED << data, scaling_vars, node_value_color_mapping,
                       edge_value_color_mapping, exvars >>

\* filter_edges_try, had the test `edge['id'] in edges_list` (line 135) been
\* left out
filter_edges_try_all(q) ==
    IF q.fails THEN [ ok |-> FALSE, edges |-> << >> ]
    ELSE [ ok |-> TRUE, edges |-> EdgeIdsOf(data) ]

\* the try block of _callback_filter_edges (lines 132-137): [ok, edges]
filter_edges_try(q) ==
    IF q.fails THEN [ ok |-> FALSE, edges |-> << >> ]
    ELSE [ ok |-> TRUE,
           edges |-> SelectSeq(DataCopy.edges, LAMBDA x : x \in Range(q.ids)) ]

callback_filter_edges(q) ==
    LET t == filter_edges_try(q)
    IN /\ filtered_data' = IF t.ok THEN [ DataCopy EXCEPT !.edges = t.edges ]
                                   ELSE DataCopy
       /\ graph_data' = IF t.ok THEN Snapshot(filtered_data')
                                ELSE Snapshot(DataCopy)
       /\ last' = [ NoCall EXCEPT !.op = "filter_edges", !.fails = q.fails, !.ok = t.ok,
                                  !.found = q.ids, !.narrowed = Narrowed ]
       /\ UNCHANGED << data, scaling_vars, flagvars, node_value_color_mapping,
                       edge_value_color_mapping, exvars >>

\* Series.unique(): the distinct values, in order of first appearance
unique_values(s) ==
    LET first == SelectSeq([ i \in DOMAIN s |-> i ],
                           LAMBDA i : \A j \in 1..(i - 1) : s[j] # s[i])
    IN [ k \in DOMAIN first |-> s[first[k]] ]

\* get_distinct_colors(n): n colors, no two alike
get_distinct_colors(n) == [ k \in 1..n |-> << "hue", k >> ]

\* {x: y for x, y in zip(unique_values, colors)}, as the list of its items
zip_mapping(values, colors) == [ k \in DOMAIN values |-> << values[k], colors[k] >> ]

MappingGet(mapping, value) ==
    mapping[CHOOSE k \in DOMAIN mapping : mapping[k][1] = value][2]

\* "filter the data currently shown" (lines 159-160, 182-183, 202-203, 224-225):
\* the rows of the full table whose identifier the view holds
shown_rows(all_ids, view_ids) == SelectSeq(all_ids, LAMBDA x : x \in Range(view_ids))

value_color_mapping_of(rows, attr_value) ==
    IF attr_value = "None" THEN << >>
    ELSE LET u == unique_values([ i \in DOMAIN rows |-> rows[i].val ])
         IN zip_mapping(u, get_distinct_colors(Len(u)))

callback_color_nodes(color_nodes_value) ==
    LET m == value_color_mapping_of(data.nodes, color_nodes_value)
    IN /\ data' = [ data EXCEPT !.nodes =
                      [ i \in DOMAIN data.nodes |->
                          [ data.nodes[i] EXCEPT !.color =
                              IF color_nodes_value = "None" THEN DEFAULT_COLOR
                              ELSE MappingGet(m, data.nodes[i].val) ] ] ]
       /\ filtered_data' = [ filtered_data EXCEPT !.nodes =
                               shown_rows(NodeIdsOf(data), filtered_data.nodes) ]
       /\ graph_data' = Snapshot(filtered_data')
       /\ node_value_color_mapping' = m
       /\ last' = [ NoCall EXCEPT !.op = "color_nodes", !.attr = color_nodes_value,
                                  !.narrowed = Narrowed ]
       /\ UNCHANGED << scaling_vars, flagvars, edge_value_color_mapping, exvars >>

callback_color_edges(color_edges_value) ==
    LET m == value_color_mapping_of(data.edges, color_edges_value)
    IN /\ data' = [ data EXCEPT !.edges =
                      [ i \in DOMAIN data.edges |->
                          [ data.edges[i] EXCEPT !.color =
                              IF color_edges_value = "None" THEN DEFAULT_COLOR
                              ELSE MappingGet(m, data.edges[i].val) ] ] ]
       /\ filtered_data' = [ filtered_data EXCEPT !.edges =
                               shown_rows(EdgeIdsOf(data), filtered_data.edges) ]
       /\ graph_data' = Snapshot(filtered_data')
       /\ edge_value_color_mapping' = m
       /\ last' = [ NoCall EXCEPT !.op = "color_edges", !.attr = color_edges_value,
                                  !.narrowed = Narrowed ]
       /\ UNCHANGED << scaling_vars, flagvars, node_value_color_mapping, exvars >>

\* what 20 * (x - minn) / (maxx - minn) does when maxx = minn: division of
\* Python numbers raises ZeroDivisionError, division of numpy scalars yields nan
ZeroDivisionOutcomes == { "raise", "nan" }

\* scale_val (lines 177, 219), for maxx # minn
scale_val(x, minn, maxx) == (20 * (x - minn)) \div (maxx - minn)

\* float addition
FloatAdd(a, b) == IF a = NaN \/ b = NaN THEN NaN ELSE a + b

\* scale_val(x) where it does not raise: nan when maxx = minn
scaled(x, bounds) ==
    IF bounds.max = bounds.min THEN NaN ELSE scale_val(x, bounds.min, bounds.max)

callback_size_nodes(size_nodes_value, on_zero) ==
    LET b == scaling_vars.node
        raises == /\ size_nodes_value # "None"
                  /\ b.max = b.min
                  /\ on_zero = "raise"
                  /\ data.nodes # << >>
        size(node) == IF size_nodes_value = "None" THEN DEFAULT_NODE_SIZE
                      ELSE FloatAdd(node.size, scaled(node.val, b))
    IN /\ IF raises
          THEN /\ last' = [ NoCall EXCEPT !.op = "size_nodes", !.raised = TRUE,
                                          !.attr = size_nodes_value,
                                          !.narrowed = Narrowed ]
               /\ UNCHANGED << data, filtered_data, graph_data >>
          ELSE /\ data' = [ data EXCEPT !.nodes =
                              [ i \in DOMAIN data.nodes |->
                                  [ data.nodes[i] EXCEPT !.size = size(data.nodes[i]) ] ] ]
               /\ filtered_data' = [ filtered_data EXCEPT !.nodes =
                                       shown_rows(NodeIdsOf(data), filtered_data.nodes) ]
               /\ graph_data' = Snapshot(filtered_data')
               /\ last' = [ NoCall EXCEPT !.op = "size_nodes",
                                          !.attr = size_nodes_value,
                                          !.narrowed = Narrowed ]
       /\ UNCHANGED << scaling_vars, flagvars, node_value_color_mapping,
                       edge_value_color_mapping, exvars >>

callback_size_edges(size_edges_value, on_zero) ==
    LET b == scaling_vars.edge
        raises == /\ size_edges_value # "None"
                  /\ b.max = b.min
                  /\ on_zero = "raise"
                  /\ data.edges # << >>
        width(edge) == IF size_edges_value = "None" THEN DEFAULT_EDGE_SIZE
                       ELSE scaled(edge.val, b)
    IN IF raises
       THEN /\ last' = [ NoCall EXCEPT !.op = "size_edges", !.raised = TRUE,
                                       !.attr = size_edges_value,
                                       !.narrowed = Narrowed ]
            /\ UNCHANGED << data, scaling_vars, filtered_data, graph_data, flagvars,
                            node_value_color_mapping, edge_value_color_mapping,
                            exvars >>
       ELSE /\ data' = [ data EXCEPT !.edges =
                           [ i \in DOMAIN data.edges |->
                               [ data.edges[i] EXCEPT !.width = width(data.edges[i]) ] ] ]
            /\ filtered_data' = [ filtered_data EXCEPT !.edges =
                                    shown_rows(EdgeIdsOf(data), filtered_data.edges) ]
            /\ graph_data' = Snapshot(filtered_data')
            /\ last' = [ NoCall EXCEPT !.op = "size_edges",
                                       !.attr = size_edges_value,
                                       !.narrowed = Narrowed ]
            /\ UNCHANGED << scaling_vars, flagvars, node_value_color_mapping,
                            edge_value_color_mapping, exvars >>

\* setting_pane_callback with no triggering control (lines 348-350)
no_trigger ==
    /\ graph_data' = Snapshot(DataCopy)
    /\ last' = [ NoCall EXCEPT !.narrowed = Narrowed ]
    /\ UNCHANGED << data, scaling_vars, filtered_data, flagvars,
                    node_value_color_mapping, edge_value_color_mapping, exvars >>

-----------------------------------------------------------------------------
(* The dashboard: setting_pane_callback, one action per triggering control *)

N1 == NodeIds[1]
N2 == NodeIds[2]
N3 == NodeIds[3]

\* the edge tables of the sessions: a single edge, a fan-out, a cycle, a
\* self-loop, and edges to and from an identifier the node table does not hold
SessionTables ==
    { << << N1, N2 >> >>,
      << << N1, N2 >>, << N1, N3 >> >>,
      << << N1, N2 >>, << N2, N3 >>, << N3, N1 >> >>,
      << << N2, N2 >>, << N3, N2 >> >>,
      << << N1, GHOST >> >>,
      << << GHOST, N3 >>, << N3, N2 >> >> }

\* the checkbox settings of the sessions: (related, org, wf, tables)
SessionFlags ==
    { << TRUE, TRUE, TRUE, TRUE >>, << FALSE, TRUE, TRUE, TRUE >>,
      << TRUE, FALSE, TRUE, TRUE >>, << TRUE, TRUE, FALSE, FALSE >> }

\* what the division does for the bounds b: see ZeroDivisionOutcomes
DivisionOutcomes(b) == IF b.max = b.min THEN ZeroDivisionOutcomes ELSE { "exact" }

InitFlags ==
    /\ add_related_entities = TRUE
    /\ include_related_org = TRUE
    /\ include_related_wf = TRUE
    /\ include_related_tables = TRUE

Init ==
    /\ \E t \in SessionTables : Loaded([ i \in DOMAIN NodeIds |-> i - 1 ], t)
    /\ InitFlags
    /\ ExIdle

SearchGraph == \E search_text \in SearchTexts : callback_search_graph(search_text)

FilterNodes ==
    \E q \in NodeQueries, f \in SessionFlags :
        callback_filter_nodes(q, f[1], f[2], f[3], f[4])

FilterEdges == \E q \in EdgeQueries : callback_filter_edges(q)

ColorNodes == \E v \in AttrOptions : callback_color_nodes(v)

ColorEdges == \E v \in AttrOptions : callback_color_edges(v)

SizeNodes ==
    \E v \in AttrOptions, on_zero \in DivisionOutcomes(scaling_vars.node) :
        callback_size_nodes(v, on_zero)

SizeEdges ==
    \E v \in AttrOptions, on_zero \in DivisionOutcomes(scaling_vars.edge) :
        callback_size_edges(v, on_zero)

\* one invocation of setting_pane_callback
Handled(handler) ==
    /\ calls < MaxCalls
    /\ calls' = calls + 1
    /\ handler

Next ==
    \/ Handled(no_trigger)
    \/ Handled(SearchGraph)
    \/ Handled(FilterNodes)
    \/ Handled(FilterEdges)
    \/ Handled(ColorNodes)
    \/ Handled(ColorEdges)
    \/ Handled(SizeNodes)
    \/ Handled(SizeEdges)

Spec == Init /\ [][Next]_vars

-----------------------------------------------------------------------------
(* The node filter as a function of the dataset and the controls: the first *)
(* callback after loading, for every edge table and every control setting   *)

InitFilter ==
    /\ \E t \in EdgeTables : Loaded([ i \in DOMAIN NodeIds |-> i - 1 ], t)
    /\ InitFlags
    /\ ExIdle

FilterNodesFirst ==
    /\ calls = 0
    /\ calls' = 1
    /\ \E q \in NodeQueries, related \in BOOLEAN, org \in BOOLEAN, wf \in BOOLEAN,
          tables \in BOOLEAN :
           callback_filter_nodes(q, related, org, wf, tables)

SpecFilter == InitFilter /\ [][FilterNodesFirst]_vars

-----------------------------------------------------------------------------
(* Sizing, for every numeric node column *)

InitSize ==
    /\ \E t \in SessionTables, vals \in NodeValColumns : Loaded(vals, t)
    /\ InitFlags
    /\ ExIdle

NextSize == Handled(SizeNodes) \/ Handled(SizeEdges)

SpecSize == InitSize /\ [][NextSize]_vars

-----------------------------------------------------------------------------
(* Properties *)

\* the full dataset, as a view
FullView == [ nodes |-> NodeIdsOf(data), edges |-> EdgeIdsOf(data) ]

NoDuplicates(s) == \A i, j \in DOMAIN s : s[i] = s[j] => i = j

\* the sequences of edge rows that repeat no row
Trails(edges) ==
    UNION { { p \in [ 1..k -> DOMAIN edges ] : NoDuplicates(p) } :
            k \in 0..Len(edges) }

\* trail p leads from node a to node b, each edge taken in either direction
RECURSIVE Walks(_, _, _, _)
Walks(p, a, b, edges) ==
    IF p = << >> THEN a = b
    ELSE LET e == edges[Head(p)]
         IN \/ e.from = a /\ Walks(Tail(p), e.to, b, edges)
            \/ e.to = a /\ Walks(Tail(p), e.from, b, edges)

ConnectedByTrail(a, b, edges) == \E p \in Trails(edges) : Walks(p, a, b, edges)

\* C1: the recursive expansion _get_related_nodes ends (it returns, or
\* node_map raises), whatever the graph (cycles and self-loops included), the
\* seeds and the category flags; and every node it returns is a seed or is
\* connected to a seed by a path of edges, taken in either direction, that
\* repeats no edge.
C1_ExpansionTerminates ==
    /\ <>(ex_pc \in { "done", "raised" })
    /\ [](ex_pc = "done" =>
            \A id \in Range(ex_result) :
                \E seed \in Range(ExSeeds) : ConnectedByTrail(seed, id, data.edges))

\* an edge table with a cycle: a self-loop or two edges a -> b, b -> a
HasCycle(edges) ==
    \E i, j \in DOMAIN edges : edges[i].from = edges[j].to /\ edges[i].to = edges[j].from

\* C1 witness: the expansion of a cyclic graph has returned nodes beyond its seeds
C1_CyclicExpansionDone ==
    /\ ex_pc = "done"
    /\ HasCycle(data.edges)
    /\ Range(ex_result) \ Range(ExSeeds) # { }

\* the identifier belongs to a category whose include flag is off
Excluded(id) ==
    \/ ~include_related_org /\ Contains(id, MARK_ORG)
    \/ ~include_related_wf /\ Contains(id, MARK_WF)
    \/ ~include_related_tables /\ Contains(id, MARK_TABLE)

\* the nodes of the dataset connected to a node of S by a path of edges, taken
\* in either direction, on which no node after the first is Excluded
RECURSIVE RelatedClosure(_, _)
RelatedClosure(S, edges) ==
    LET more == { e.to : e \in { x \in Range(edges) : x.from \in S } } \cup
                { e.from : e \in { x \in Range(edges) : x.to \in S } }
        T == S \cup { y \in more \cap Range(NodeIdsOf(data)) : ~Excluded(y) }
    IN IF T = S THEN S ELSE RelatedClosure(T, edges)

NodeFilterDone == last.op = "filter_nodes" /\ last.ok

\* C2: after a node filter with 'include related' set whose expression
\* evaluated, the nodes of the filtered view are the seeds and every node
\* connected to a seed by a path on which every node after the seed is not
\* category-excluded; none of those is missing.
C2_RelatedComplete ==
    NodeFilterDone /\ add_related_entities =>
        Range(filtered_data.nodes) = RelatedClosure(Range(last.found), data.edges)

\* C3, as claimed: after a node filter with 'include related' set, no node of
\* the filtered view's node collection has an identifier containing the
\* marker of a category whose include flag is off.
C3_NoExcludedMarker ==
    NodeFilterDone /\ add_related_entities =>
        \A id \in Range(filtered_data.nodes) : ~Excluded(id)

\* C3, amended: after a node filter with 'include related' set, a node of the
\* filtered view's node collection whose identifier contains the marker of a
\* category whose include flag is off is a seed: the expression itself
\* matched it.
C3_ExcludedOnlyAsSeed ==
    NodeFilterDone /\ add_related_entities =>
        \A id \in Range(filtered_data.nodes) :
            Excluded(id) => id \in Range(last.found)

\* C3 witness: a seed has a neighbour of a category that is switched off, and
\* the expansion left the neighbour out
C3_NeighbourLeftOut ==
    /\ NodeFilterDone
    /\ add_related_entities
    /\ \E e \in Range(data.edges) :
          /\ e.from \in Range(last.found)
          /\ Excluded(e.to)
          /\ e.to \notin Range(filtered_data.nodes)

\* C4: no node identifier occurs twice in the node collection of the filtered
\* view, and no edge identifier twice in its edge collection.
C4_UniqueIdentifiers ==
    /\ NoDuplicates(filtered_data.nodes)
    /\ NoDuplicates(filtered_data.edges)

FilterFailed == last.op \in { "filter_nodes", "filter_edges" } /\ last.fails

\* C5: when the expression of a node filter or an edge filter fails to
\* evaluate, the handler does not raise, the snapshot it returns is the full
\* dataset, and the filtered view holds the full dataset's nodes and edges,
\* whatever filter was in effect before.
C5_FailedFilterReverts ==
    FilterFailed =>
        /\ ~last.raised
        /\ graph_data = Snapshot(FullView)
        /\ filtered_data = FullView

\* C5 witness: an edge filter expression failed while a node filter was in effect
C5_FailedAfterNarrowing ==
    /\ last.op = "filter_edges"
    /\ last.fails
    /\ last.narrowed

\* the bounds the last sizing scaled with
SizingBounds == IF last.op = "size_nodes" THEN scaling_vars.node ELSE scaling_vars.edge

DegenerateSizing ==
    /\ last.op \in { "size_nodes", "size_edges" }
    /\ last.attr # "None"
    /\ SizingBounds.max = SizingBounds.min

\* C6: sizing nodes or edges by an attribute whose bounds are degenerate
\* (min = max) does not raise, and leaves every size and width a number.
C6_DegenerateSizingDefined ==
    DegenerateSizing =>
        /\ ~last.raised
        /\ \A i \in DOMAIN data.nodes : data.nodes[i].size # NaN
        /\ \A i \in DOMAIN data.edges : data.edges[i].width # NaN

\* C7: every node identifier of the filtered view is the identifier of a node
\* of the full dataset, and every edge identifier of the filtered view is the
\* identifier of an edge of the full dataset.
C7_ViewWithinDataset ==
    /\ Range(filtered_data.nodes) \subseteq Range(NodeIdsOf(data))
    /\ Range(filtered_data.edges) \subseteq Range(EdgeIdsOf(data))
    /\ { graph_data.nodes[i].id : i \in DOMAIN graph_data.nodes }
           \subseteq Range(NodeIdsOf(data))
    /\ Range(graph_data.edges) \subseteq Range(EdgeIdsOf(data))

\* C7 witness: a node filter with related expansion met an edge whose endpoint
\* the node table does not hold
C7_DanglingEndpointMet ==
    /\ last.op = "filter_nodes"
    /\ ~last.fails
    /\ add_related_entities
    /\ last.found # << >>
    /\ \E e \in Range(data.edges) : e.to = GHOST /\ e.from \in Range(last.found)

\* C8: after a search for s a displayed node is marked hidden if and only if
\* its lower-cased label does not contain lower-cased s; with s = "" no node
\* is hidden.
C8_SearchHides ==
    last.op = "search_graph" =>
        /\ \A i \in DOMAIN graph_data.nodes :
              /\ graph_data.nodes[i].hidden \in { "true", "false" }
              /\ graph_data.nodes[i].hidden = "true" <=>
                    ~Contains(Lower(graph_data.nodes[i].label), Lower(last.text))
        /\ last.text = << >> =>
              \A i \in DOMAIN graph_data.nodes : graph_data.nodes[i].hidden = "false"
        /\ last.text = << "a", "l" >> =>
              \A i \in DOMAIN graph_data.nodes :
                  /\ graph_data.nodes[i].label = << "A", "l", "p", "h", "a" >>
                        => graph_data.nodes[i].hidden = "false"
                  /\ graph_data.nodes[i].label = << "B", "e", "t", "a" >>
                        => graph_data.nodes[i].hidden = "true"

\* C8 witness: a search in capitals over a filtered view hid one node and kept
\* another
C8_MixedCaseSearch ==
    /\ last.op = "search_graph"
    /\ last.text = << "A", "L" >>
    /\ last.narrowed
    /\ \E i, j \in DOMAIN graph_data.nodes :
          graph_data.nodes[i].hidden = "true" /\ graph_data.nodes[j].hidden = "false"

EdgeFilterDone == last.op = "filter_edges" /\ last.ok

\* C9, as claimed: after a successful edge filter the filtered view's edges
\* are those the expression matched, and its nodes are those it held before
\* the edge filter.
C9_EdgeFilterKeepsNodes ==
    [][EdgeFilterDone' =>
          /\ filtered_data'.edges = last'.found
          /\ filtered_data'.nodes = filtered_data.nodes]_vars

\* C9, amended: after a successful edge filter the filtered view's edges are
\* those the expression matched, and its nodes are all the nodes of the full
\* dataset: a node filter applied earlier is no longer in effect.
C9_EdgeFilterResetsNodes ==
    EdgeFilterDone =>
        /\ filtered_data.edges = last.found
        /\ filtered_data.nodes = NodeIdsOf(data)

\* C9 witness: an edge filter matched some edges, not all, while a node filter
\* was in effect
C9_EdgeFilterAfterNodeFilter ==
    /\ EdgeFilterDone
    /\ last.narrowed
    /\ last.found # << >>
    /\ Len(last.found) < Len(data.edges)

\* the elements a snapshot shows: its nodes not marked hidden, and its edges
Shown(snapshot) ==
    [ nodes |-> { snapshot.nodes[i].id :
                    i \in { k \in DOMAIN snapshot.nodes : snapshot.nodes[k].hidden # "true" } },
      edges |-> Range(snapshot.edges) ]

\* C10: the snapshot a color-nodes or color-edges operation returns shows the
\* same elements as the snapshot displayed just before it.
C10_ColoringKeepsShown ==
    [][last'.op \in { "color_nodes", "color_edges" } =>
          Shown(graph_data') = Shown(graph_data)]_vars

====
